---- MODULE Spec2Model ----
(***************************************************************************)
(* Slice-and-dice treemap of willpoint/treemap.                            *)
(*                                                                         *)
(* Two implementations live in the repository and both are modelled:       *)
(*   - the library  (treemap.go): drawTree / DrawTreemap over the          *)
(*     TreeMapper interface, with the TNode adapter of README.md           *)
(*     (Identity, Weight, Descendants);                                    *)
(*   - the standalone program (tmap.go): TNode.drawTree / TNode.drawNode / *)
(*     TNode.size / each / main, which keep depth, orientation, color and  *)
(*     bound in fields of the nodes.                                       *)
(*                                                                         *)
(* The recursion of drawTree is a stack of frames; one step of the model   *)
(* is one iteration of the loop over the children: it ends in the          *)
(* recursive call and in the return of every call whose loop is finished.  *)
(*                                                                         *)
(* float64 values are exact rationals n/d (kind "num"), NaN, +Inf or a     *)
(* finite value of magnitude >= 2^63 (kind "big").  Sizes and canvas       *)
(* dimensions are small naturals, for which the IEEE results of the        *)
(* program's divisions, products and sums round to the same integers as    *)
(* the exact ones.  Go's int is the 64-bit two's complement integer; it is *)
(* the pair hi, lo standing for lo + hi * 2^63 modulo 2^64.                *)
(***************************************************************************)
EXTENDS Integers, Sequences, FiniteSets, TLC

\* ---------------------------------------------------------------- bounds
MaxNodes == 4
MaxSize == 1
MaxDim == 2
MaxDepthArg == 2
MaxEmptyLists == 1

\* ------------------------------------------------------------- constants
Horizontal == "horizontal"
Vertical == "vertical"
HORIZONTAL == "horizontal"
VERTICAL == "vertical"

\* The conversion int(f) of a float64 that is NaN or out of range is
\* implementation-specific in Go; these are the targets whose results differ.
Builds == {"amd64", "arm64", "riscv64"}

VARIABLES
    tree,       \* the decoded data: node -> [Name, Size, Children, isNil]
    width,      \* flag -w
    height,     \* flag -h
    startPath,  \* DrawTreemap's startPath
    maxDepth,   \* flag -depth
    build,      \* the target the program was compiled for
    phase,      \* which run is in progress
    stack,      \* library: the active calls of drawTree, innermost last
    svgOut,     \* library: the drawNode calls of the run in progress
    svgPrev,    \* library: the drawNode calls of the first run
    fields,     \* standalone: node -> [color, orientation, depth, bound]
    tstack,     \* standalone: the active calls of TNode.drawTree
    tOut,       \* standalone: the drawNode calls of the run in progress
    tPrev       \* standalone: the drawNode calls of the first run

vars == <<tree, width, height, startPath, maxDepth, build, phase,
          stack, svgOut, svgPrev, fields, tstack, tOut, tPrev>>

inputs == <<tree, width, height, startPath, maxDepth, build>>

\* ------------------------------------------------------------ arithmetic
Abs(x) == IF x < 0 THEN -x ELSE x

RECURSIVE Gcd(_, _)
Gcd(a, b) == IF b = 0 THEN a ELSE Gcd(b, a % b)

\* float64 values
Num(n, d) ==
    LET g == Gcd(Abs(n), d)
    IN  [k |-> "num", n |-> n \div g, d |-> d \div g]
NaN == [k |-> "nan", n |-> 0, d |-> 1]
Inf == [k |-> "inf", n |-> 0, d |-> 1]
Big == [k |-> "big", n |-> 0, d |-> 1]

\* a / b on float64
FloatDiv(a, b) ==
    IF a.k = "nan" \/ b.k = "nan" THEN NaN
    ELSE IF a.k = "num" /\ b.k = "num"
         THEN IF b.n = 0
              THEN IF a.n = 0 THEN NaN ELSE Inf
              ELSE Num(a.n * b.d, a.d * b.n)
         ELSE IF a.k = b.k THEN (IF a.k = "inf" THEN NaN ELSE Big)
         ELSE IF b.k = "inf" THEN Num(0, 1)
         ELSE IF a.k = "inf" THEN Inf
         ELSE IF a.k = "big" THEN Big
         ELSE Num(0, 1)

\* a * b on float64
FloatMul(a, b) ==
    IF a.k = "nan" \/ b.k = "nan" THEN NaN
    ELSE IF a.k = "num" /\ b.k = "num" THEN Num(a.n * b.n, a.d * b.d)
    ELSE IF (a.k = "num" /\ a.n = 0) \/ (b.k = "num" /\ b.n = 0)
         THEN (IF a.k = "inf" \/ b.k = "inf" THEN NaN ELSE Num(0, 1))
    ELSE IF a.k = "inf" \/ b.k = "inf" THEN Inf
    ELSE Big

\* a + b on float64
FloatAdd(a, b) ==
    IF a.k = "nan" \/ b.k = "nan" THEN NaN
    ELSE IF a.k = "num" /\ b.k = "num"
         THEN Num(a.n * b.d + b.n * a.d, a.d * b.d)
    ELSE IF a.k = "inf" \/ b.k = "inf" THEN Inf
    ELSE Big

Half == Num(1, 2)

\* Go's int (64 bit): lo + hi * 2^63 modulo 2^64
Int64(lo) == [hi |-> 0, lo |-> lo]
MinInt64 == [hi |-> 1, lo |-> 0]
MaxInt64 == [hi |-> 1, lo |-> -1]
IntAdd(a, b) == [hi |-> (a.hi + b.hi) % 2, lo |-> a.lo + b.lo]
IntSub(a, b) == [hi |-> (a.hi + b.hi) % 2, lo |-> a.lo - b.lo]
\* the order of the signed values
IntClass(a) == IF a.hi = 0 THEN 1 ELSE IF a.lo >= 0 THEN 0 ELSE 2
IntLe(a, b) ==
    \/ IntClass(a) < IntClass(b)
    \/ IntClass(a) = IntClass(b) /\ a.lo <= b.lo
IntLt(a, b) == IntLe(a, b) /\ a # b

\* int(f): truncation toward zero; NaN and values out of range convert to
\* what the target's instruction yields.
ToInt(f, b) ==
    IF f.k = "num"
    THEN IF f.n >= 0 THEN Int64(f.n \div f.d) ELSE Int64(-((-f.n) \div f.d))
    ELSE IF f.k = "nan"
         THEN (IF b = "amd64" THEN MinInt64
               ELSE IF b = "arm64" THEN Int64(0) ELSE MaxInt64)
    ELSE IF b = "amd64" THEN MinInt64 ELSE MaxInt64

\* float64(i)
ToFloat(i) == IF i.hi = 0 THEN Num(i.lo, 1) ELSE Big

\* ------------------------------------------------------- image.Rectangle
Pt(x, y) == [X |-> x, Y |-> y]
Rectangle(min, max) == [Min |-> min, Max |-> max]
ZR == Rectangle(Pt(Int64(0), Int64(0)), Pt(Int64(0), Int64(0)))
\* image.Rect(x0, y0, x1, y1) orders the corners
Rect(x0, y0, x1, y1) ==
    Rectangle(Pt(Int64(IF x0 > x1 THEN x1 ELSE x0), Int64(IF y0 > y1 THEN y1 ELSE y0)),
              Pt(Int64(IF x0 > x1 THEN x0 ELSE x1), Int64(IF y0 > y1 THEN y0 ELSE y1)))
Dx(r) == IntSub(r.Max.X, r.Min.X)
Dy(r) == IntSub(r.Max.Y, r.Min.Y)

\* ------------------------------------------------------------- the color
\* newRgb(r, g, b): each component is masked with 0xff.  The low eight bits
\* of lo + hi * 2^63 are those of lo.
newRgb(r, g, b) == [r |-> r.lo % 256, g |-> g.lo % 256, b |-> b.lo % 256]
\* x >> s for a small non-negative int
Shr(x, s) == Int64(x.lo \div (2 ^ s))
\* rgb.String() of treemap.go: "rgb(%d, %d, %d)"
RgbString(c) == <<"rgb(", c.r, ", ", c.g, ", ", c.b, ")">>
\* rgb.String() of tmap.go: "rgb(" + itoa(r) + "," + itoa(g) + "," + itoa(b) + ")"
RgbStringT(c) == <<"rgb(", c.r, ",", c.g, ",", c.b, ")">>

\* -------------------------------------------------------------- the tree
\* A *TNode is its index in tree; the root of the decoded document is node 1.
Root == 1
Nodes == DOMAIN tree

RECURSIVE SortedSeq(_)
SortedSeq(S) ==
    IF S = {} THEN <<>>
    ELSE LET m == CHOOSE x \in S : \A y \in S : x <= y
         IN  <<m>> \o SortedSeq(S \ {m})

RECURSIVE PathTo(_, _)
PathTo(parent, j) == IF j = 1 THEN {1} ELSE {j} \cup PathTo(parent, parent[j])

\* The nodes are numbered in document order (pre-order), so every ordered
\* tree of n nodes is one parent vector.
IsDocumentOrder(n, parent) ==
    \A i \in 3..n : parent[i] \in PathTo(parent, i - 1)

\* What json.Decode leaves in a TNode: "children" absent gives a nil slice,
\* "children": [] an empty one that is not nil, "size" absent gives 0.
Decoded(n, parent, sz, empties) ==
    [i \in 1..n |->
        LET kids == {j \in 2..n : parent[j] = i}
        IN  [Name |-> i,
             Size |-> sz[i],
             Children |-> SortedSeq(kids),
             isNil |-> kids = {} /\ i \notin empties]]

ParentVectors(n) ==
    { p \in [2..n -> 1..n] : (\A i \in 2..n : p[i] < i) /\ IsDocumentOrder(n, p) }

LeavesOf(n, parent) == { i \in 1..n : \A j \in 2..n : parent[j] # i }

\* Every document of at most MaxNodes nodes: any node may carry a "size",
\* and at most MaxEmptyLists leaves carry "children": [].
AnyDocuments ==
    UNION {
        UNION {
            { Decoded(n, parent, sz, empties) :
                sz \in [1..n -> 0..MaxSize],
                empties \in { E \in SUBSET LeavesOf(n, parent) :
                                Cardinality(E) <= MaxEmptyLists } }
            : parent \in ParentVectors(n) }
        : n \in 1..MaxNodes }

\* The documents shaped like the repository's data: a node has either
\* "children" or "size" (README.md, TestTNode_Weight).
Documents ==
    UNION {
        UNION {
            { Decoded(n, parent, sz, {}) :
                sz \in { f \in [1..n -> 0..MaxSize] :
                           \A i \in (1..n) \ LeavesOf(n, parent) : f[i] = 0 } }
            : parent \in ParentVectors(n) }
        : n \in 1..MaxNodes }

RECURSIVE SumSeq(_)
SumSeq(s) == IF s = <<>> THEN 0 ELSE Head(s) + SumSeq(Tail(s))

\* ------------------------------------------- the TNode adapter (README.md)
Identity(t) == tree[t].Name

\* TNode.Weight: the closure adds the Size of every node whose Children is nil
RECURSIVE Weight(_)
Weight(t) ==
    IF ~tree[t].isNil
    THEN SumSeq([i \in 1..Len(tree[t].Children) |-> Weight(tree[t].Children[i])])
    ELSE tree[t].Size

Descendants(t) == tree[t].Children

\* ------------------------------------------------ tmap.go: each and size
\* each(nn, before, nil) with before = func(n) { sum += n.Size }: the sum
\* the traversal of the slice nn adds.
RECURSIVE each(_)
each(nn) ==
    IF nn = <<>> THEN 0
    ELSE LET c == Head(nn)
         IN  tree[c].Size
             + (IF ~tree[c].isNil THEN each(tree[c].Children) ELSE 0)
             + each(Tail(nn))

size(t) == each(<<t>>)

\* ------------------------------------------------------ treemap.go: drawTree
Push(s, e) == Append(s, e)
Top(s) == s[Len(s)]
Pop(s) == SubSeq(s, 1, Len(s) - 1)

\* Calls whose loop over the children is finished return, innermost first.
RECURSIVE Return(_)
Return(s) ==
    IF s # <<>> /\ Top(s).i > Len(tree[Top(s).t].Children)
    THEN Return(Pop(s))
    ELSE s

\* drawTree with the depth check passing one level more
drawTreeCallDeeper(t, path, bound, depth) ==
    IF maxDepth # 0 /\ depth > maxDepth
    THEN <<>>
    ELSE <<[t |-> t, path |-> path, bound |-> bound, depth |-> depth,
            consumed |-> Num(0, 1),
            parentWeight |-> Num(Weight(t), 1),
            nextPath |-> IF path = Horizontal THEN Vertical ELSE Horizontal,
            i |-> 1,
            proportion |-> Num(0, 1)]>>

\* drawTree handing its own path on to the children
drawTreeCallSamePath(t, path, bound, depth) ==
    IF maxDepth # 0 /\ depth >= maxDepth
    THEN <<>>
    ELSE <<[t |-> t, path |-> path, bound |-> bound, depth |-> depth,
            consumed |-> Num(0, 1),
            parentWeight |-> Num(Weight(t), 1),
            nextPath |-> path,
            i |-> 1,
            proportion |-> Num(0, 1)]>>

\* drawTree with a depth check that takes maxDepth = 0 for a limit
drawTreeCallZeroLimit(t, path, bound, depth) ==
    IF depth >= maxDepth
    THEN <<>>
    ELSE <<[t |-> t, path |-> path, bound |-> bound, depth |-> depth,
            consumed |-> Num(0, 1),
            parentWeight |-> Num(Weight(t), 1),
            nextPath |-> IF path = Horizontal THEN Vertical ELSE Horizontal,
            i |-> 1,
            proportion |-> Num(0, 1)]>>

\* The call drawTree(t, svg, path, bound, depth, maxDepth) up to its loop:
\* no frame when the depth check returns, else the frame with its locals.
drawTreeCall(t, path, bound, depth) ==
    IF maxDepth # 0 /\ depth >= maxDepth
    THEN <<>>
    ELSE <<[t |-> t, path |-> path, bound |-> bound, depth |-> depth,
            consumed |-> Num(0, 1),
            parentWeight |-> Num(Weight(t), 1),
            nextPath |-> IF path = Horizontal THEN Vertical ELSE Horizontal,
            i |-> 1,
            proportion |-> Num(0, 1)]>>

\* proportion of the child c in the frame f
drawTreeProportion(f, c) ==
    FloatMul(FloatDiv(Num(Weight(c), 1), f.parentWeight),
             ToFloat(IF f.path = Horizontal THEN Dy(f.bound) ELSE Dx(f.bound)))

\* drawTreeBound with the axes swapped: Horizontal bands along X
drawTreeBoundSwapped(f, proportion) ==
    LET start == ToInt(FloatAdd(f.consumed, Half), build)
        len   == ToInt(FloatAdd(proportion, Half), build)
    IN  IF f.path = Vertical
        THEN Rectangle(Pt(f.bound.Min.X, IntAdd(f.bound.Min.Y, start)),
                       Pt(f.bound.Max.X, IntAdd(IntAdd(f.bound.Min.Y, start), len)))
        ELSE Rectangle(Pt(IntAdd(f.bound.Min.X, start), f.bound.Min.Y),
                       Pt(IntAdd(IntAdd(f.bound.Min.X, start), len), f.bound.Max.Y))

\* newBound of a child with the given proportion in the frame f
drawTreeBound(f, proportion) ==
    LET start == ToInt(FloatAdd(f.consumed, Half), build)
        len   == ToInt(FloatAdd(proportion, Half), build)
    IN  IF f.path = Horizontal
        THEN Rectangle(Pt(f.bound.Min.X, IntAdd(f.bound.Min.Y, start)),
                       Pt(f.bound.Max.X, IntAdd(IntAdd(f.bound.Min.Y, start), len)))
        ELSE Rectangle(Pt(IntAdd(f.bound.Min.X, start), f.bound.Min.Y),
                       Pt(IntAdd(IntAdd(f.bound.Min.X, start), len), f.bound.Max.Y))

\* color of a child with the given proportion under a parent of weight w
drawTreeColor(w, proportion) ==
    newRgb(Shr(ToInt(w, build), 2),
           Shr(ToInt(w, build), 1),
           ToInt(FloatAdd(w, proportion), build))

\* drawNode(svg, identity, bound, color): the rectangle and the text written
drawNode(identity, bound, color) ==
    [identity |-> identity, bound |-> bound, color |-> color]

\* DrawTreemap: a new document, the canvas as the root's bound, drawTree on
\* the root at depth 0.  The second call repeats the first on the same data.
DrawTreemap ==
    /\ \/ phase = "start"
       \/ phase = "draw1" /\ stack = <<>>
    /\ phase' = (IF phase = "start" THEN "draw1" ELSE "draw2")
    /\ svgPrev' = svgOut
    /\ svgOut' = <<>>
    /\ stack' = Return(drawTreeCall(Root, startPath, Rect(0, 0, width, height), 0))
    /\ UNCHANGED <<inputs, fields, tstack, tOut, tPrev>>

\* One iteration of the loop of drawTree over t.Descendants(): the child's
\* proportion, bound and color, drawNode, consumed, and the recursive call.
drawTree ==
    /\ phase \in {"draw1", "draw2"}
    /\ stack # <<>>
    /\ \E f \in {Top(stack)} :
       \E c \in {Descendants(f.t)[f.i]} :
       \E proportion \in {drawTreeProportion(f, c)} :
       \E newBound \in {drawTreeBound(f, proportion)} :
       \E color \in {RgbString(drawTreeColor(f.parentWeight, proportion))} :
       \E g \in {[f EXCEPT !.consumed = FloatAdd(f.consumed, proportion),
                           !.proportion = proportion,
                           !.i = f.i + 1]} :
       \E calls \in {Push(Pop(stack), g)
                       \o drawTreeCall(c, f.nextPath, newBound, f.depth + 1)} :
          /\ svgOut' = Append(svgOut, drawNode(Identity(c), newBound, color))
          /\ stack' = Return(calls)
    /\ UNCHANGED <<inputs, phase, svgPrev, fields, tstack, tOut, tPrev>>

\* ------------------------------------------------- tmap.go: TNode.drawTree
\* The zero value of the unexported fields of a decoded TNode
ZeroFields == [color |-> <<>>, orientation |-> "", depth |-> 0, bound |-> ZR]

\* TNode.drawTree with the depth check cutting one level early
TNode_drawTreeCallEarly(t, fs) ==
    IF maxDepth # 0 /\ fs[t].depth + 1 >= maxDepth
    THEN <<>>
    ELSE <<[t |-> t,
            consumed |-> Num(0, 1),
            mSize |-> Num(size(t), 1),
            nextOrientation |-> IF fs[t].orientation = VERTICAL
                                THEN HORIZONTAL ELSE VERTICAL,
            i |-> 1,
            proportion |-> Num(0, 1)]>>

\* TNode.drawTree reading depth and orientation as they were before drawNode
\* stored them
TNode_drawTreeCallStale(t, fs) ==
    IF maxDepth # 0 /\ fields[t].depth >= maxDepth
    THEN <<>>
    ELSE <<[t |-> t,
            consumed |-> Num(0, 1),
            mSize |-> Num(size(t), 1),
            nextOrientation |-> IF fields[t].orientation = VERTICAL
                                THEN HORIZONTAL ELSE VERTICAL,
            i |-> 1,
            proportion |-> Num(0, 1)]>>

\* The call t.drawTree(svg, maxDepth) up to its loop, on the fields fs
TNode_drawTreeCall(t, fs) ==
    IF maxDepth # 0 /\ fs[t].depth >= maxDepth
    THEN <<>>
    ELSE <<[t |-> t,
            consumed |-> Num(0, 1),
            mSize |-> Num(size(t), 1),
            nextOrientation |-> IF fs[t].orientation = VERTICAL
                                THEN HORIZONTAL ELSE VERTICAL,
            i |-> 1,
            proportion |-> Num(0, 1)]>>

\* proportion of the child c in the frame f
TNode_drawTreeProportion(f, c) ==
    FloatMul(FloatDiv(Num(size(c), 1), f.mSize),
             ToFloat(IF fields[f.t].orientation = HORIZONTAL
                     THEN Dy(fields[f.t].bound) ELSE Dx(fields[f.t].bound)))

\* bound of a child with the given proportion in the frame f
TNode_drawTreeBound(f, proportion) ==
    LET b     == fields[f.t].bound
        start == ToInt(FloatAdd(f.consumed, Half), build)
        len   == ToInt(FloatAdd(proportion, Half), build)
    IN  IF fields[f.t].orientation = HORIZONTAL
        THEN Rectangle(Pt(b.Min.X, IntAdd(b.Min.Y, start)),
                       Pt(b.Max.X, IntAdd(IntAdd(b.Min.Y, start), len)))
        ELSE Rectangle(Pt(IntAdd(b.Min.X, start), b.Min.Y),
                       Pt(IntAdd(IntAdd(b.Min.X, start), len), b.Max.Y))

\* t.drawNode(svg, bound, orientation, color, depth): the fields it stores
TNode_drawNode(bound, orientation, color, depth) ==
    [color |-> color, orientation |-> orientation, depth |-> depth, bound |-> bound]

\* main: the root gets the canvas and the orientation of its longer side,
\* then tmap.drawTree
main ==
    /\ phase = "draw2"
    /\ stack = <<>>
    /\ phase' = "main1"
    /\ \E fs \in {[fields EXCEPT
                     ![Root].orientation = (IF width < height THEN HORIZONTAL ELSE VERTICAL),
                     ![Root].bound = Rect(0, 0, width, height)]} :
          /\ fields' = fs
          /\ tstack' = Return(TNode_drawTreeCall(Root, fs))
    /\ tOut' = <<>>
    /\ UNCHANGED <<inputs, stack, svgOut, svgPrev, tPrev>>

\* tmap.drawTree once more on the nodes as the first run left them
drawAgain ==
    /\ phase = "main1"
    /\ tstack = <<>>
    /\ phase' = "main2"
    /\ tPrev' = tOut
    /\ tOut' = <<>>
    /\ tstack' = Return(TNode_drawTreeCall(Root, fields))
    /\ UNCHANGED <<inputs, stack, svgOut, svgPrev, fields>>

\* One iteration of the loop of TNode.drawTree over t.Children
TNode_drawTree ==
    /\ phase \in {"main1", "main2"}
    /\ tstack # <<>>
    /\ \E f \in {Top(tstack)} :
       \E c \in {tree[f.t].Children[f.i]} :
       \E proportion \in {TNode_drawTreeProportion(f, c)} :
       \E bound \in {TNode_drawTreeBound(f, proportion)} :
       \E color \in {RgbStringT(drawTreeColor(f.mSize, proportion))} :
       \E fs \in {[fields EXCEPT ![c] =
                      TNode_drawNode(bound, f.nextOrientation, color,
                                     fields[f.t].depth + 1)]} :
       \E g \in {[f EXCEPT !.consumed = FloatAdd(f.consumed, proportion),
                           !.proportion = proportion,
                           !.i = f.i + 1]} :
       \E calls \in {Push(Pop(tstack), g) \o TNode_drawTreeCall(c, fs)} :
          /\ fields' = fs
          /\ tOut' = Append(tOut, drawNode(tree[c].Name, bound, fs[c].color))
          /\ tstack' = Return(calls)
    /\ UNCHANGED <<inputs, phase, stack, svgOut, svgPrev, tPrev>>

\* ------------------------------------------------------ the specification
\* The targets differ only in int(NaN): a document in which no node with
\* children weighs 0 never evaluates it and is run on one target.
TargetsFor(doc) ==
    LET RECURSIVE sum(_)
        sum(t) == doc[t].Size
                  + SumSeq([i \in 1..Len(doc[t].Children) |-> sum(doc[t].Children[i])])
    IN  IF \E t \in DOMAIN doc : doc[t].Children # <<>> /\ sum(t) = 0
        THEN Builds ELSE {"amd64"}

Start ==
    /\ phase = "start"
    /\ stack = <<>>
    /\ svgOut = <<>>
    /\ svgPrev = <<>>
    /\ fields = [t \in DOMAIN tree |-> ZeroFields]
    /\ tstack = <<>>
    /\ tOut = <<>>
    /\ tPrev = <<>>

Init ==
    /\ tree \in Documents
    /\ width \in 1..MaxDim
    /\ height \in 1..MaxDim
    /\ startPath \in {Horizontal, Vertical}
    /\ maxDepth \in 0..MaxDepthArg
    /\ build \in TargetsFor(tree)
    /\ Start

Next ==
    \/ DrawTreemap
    \/ drawTree
    \/ main
    \/ drawAgain
    \/ TNode_drawTree

Spec == Init /\ [][Next]_vars

Done == phase = "main2" /\ tstack = <<>>

\* Unlimited depth, called as README.md's main calls DrawTreemap (the
\* orientation of the longer side), on the two widest canvases; the program
\* is sequential, so a run that can take a step takes it.
InitUnlimited ==
    /\ Init
    /\ maxDepth = 0
    /\ height = MaxDim
    /\ width \in {MaxDim - 1, MaxDim}
    /\ startPath = (IF width < height THEN Horizontal ELSE Vertical)
FairSpec == InitUnlimited /\ [][Next]_vars /\ WF_vars(Next)

\* Any document, drawn on the largest canvas.
InitAnyData ==
    /\ tree \in AnyDocuments
    /\ width = MaxDim
    /\ height \in {1, MaxDim}
    /\ startPath \in {Horizontal, Vertical}
    /\ maxDepth = 0
    /\ build \in TargetsFor(tree)
    /\ Start
DataSpec == InitAnyData /\ [][Next]_vars

\* ------------------------------------------- the tree, as the claims see it
ParentOf(t) == CHOOSE p \in Nodes : \E i \in 1..Len(tree[p].Children) : tree[p].Children[i] = t

RECURSIVE DepthOf(_)
DepthOf(t) == IF t = Root THEN 0 ELSE 1 + DepthOf(ParentOf(t))

RECURSIVE AncestorsOf(_)
AncestorsOf(t) == IF t = Root THEN {} ELSE {ParentOf(t)} \cup AncestorsOf(ParentOf(t))

IsInternal(t) == tree[t].Children # <<>>

\* sum of the sizes of the leaves below t
RECURSIVE LeafSizes(_)
LeafSizes(t) ==
    IF IsInternal(t)
    THEN SumSeq([i \in 1..Len(tree[t].Children) |-> LeafSizes(tree[t].Children[i])])
    ELSE tree[t].Size

\* the nodes below t in depth-first pre-order
RECURSIVE PreOrder(_)
RECURSIVE PreOrderOf(_)
PreOrder(t) == PreOrderOf(tree[t].Children)
PreOrderOf(cs) ==
    IF cs = <<>> THEN <<>>
    ELSE <<Head(cs)>> \o PreOrder(Head(cs)) \o PreOrderOf(Tail(cs))

Flip(o) == IF o = Horizontal THEN Vertical ELSE Horizontal

\* ------------------------------------------ the output, as the claims see it
Canvas == Rect(0, 0, width, height)
NodeOf(e) == CHOOSE t \in Nodes : tree[t].Name = e.identity
Ids(out) == [k \in 1..Len(out) |-> NodeOf(out[k])]
Emitted(out) == {NodeOf(out[k]) : k \in 1..Len(out)}
\* the rectangle of t in the run: the canvas for the root, else what was drawn
BoundOf(out, t) ==
    IF t = Root THEN Canvas
    ELSE out[CHOOSE k \in 1..Len(out) : NodeOf(out[k]) = t].bound

\* the two implementations: the drawNode calls so far, the weight function,
\* the orientation the root is sliced with
Runs ==
    { [out |-> svgOut, weight |-> [t \in Nodes |-> Weight(t)], start |-> startPath],
      [out |-> tOut, weight |-> [t \in Nodes |-> size(t)],
       start |-> IF width < height THEN HORIZONTAL ELSE VERTICAL] }

LibDone == phase # "start" /\ stack = <<>>
StdDone == phase \in {"main1", "main2"} /\ tstack = <<>>

Inside(c, n) ==
    /\ IntLe(n.Min.X, c.Min.X)
    /\ IntLe(n.Min.Y, c.Min.Y)
    /\ IntLe(c.Max.X, n.Max.X)
    /\ IntLe(c.Max.Y, n.Max.Y)

IsEmpty(r) == IntLe(r.Max.X, r.Min.X) \/ IntLe(r.Max.Y, r.Min.Y)

\* the two rectangles share area
Overlaps(r, q) ==
    /\ ~IsEmpty(r)
    /\ ~IsEmpty(q)
    /\ IntLt(r.Min.X, q.Max.X)
    /\ IntLt(q.Min.X, r.Max.X)
    /\ IntLt(r.Min.Y, q.Max.Y)
    /\ IntLt(q.Min.Y, r.Max.Y)

\* the orientation a node at the depth of t is sliced with when the
\* orientation alternates from the root's
SliceOf(run, t) == IF DepthOf(t) % 2 = 0 THEN run.start ELSE Flip(run.start)

\* length of a rectangle along the axis its parent t bands
BandLength(run, t, r) == IF SliceOf(run, t) = Horizontal THEN Dy(r) ELSE Dx(r)

RECURSIVE IntSum(_)
IntSum(s) == IF s = <<>> THEN Int64(0) ELSE IntAdd(Head(s), IntSum(Tail(s)))

\* ------------------------------------------------------------------ claims

\* C1 Containment: in a tree of total weight > 0, the rectangle drawn for a
\* child lies inside the rectangle of its parent on all four sides.
Containment ==
    \A run \in Runs :
        run.weight[Root] > 0 =>
            \A t \in Emitted(run.out) :
                Inside(BoundOf(run.out, t), BoundOf(run.out, ParentOf(t)))

\* C2 Disjointness: in a tree of total weight > 0, two drawn rectangles share
\* area only if one of the two nodes is an ancestor of the other; siblings at
\* most share an edge.
Disjointness ==
    \A run \in Runs :
        run.weight[Root] > 0 =>
            \A t, u \in Emitted(run.out) :
                (t # u /\ Overlaps(BoundOf(run.out, t), BoundOf(run.out, u)))
                    => (t \in AncestorsOf(u) \/ u \in AncestorsOf(t))

\* C3 Exact partition: once all children of a parent of weight > 0 are drawn,
\* their lengths along the banding axis sum to the parent's band length.
ExactPartition ==
    \A run \in Runs :
        \A t \in Nodes :
            (/\ IsInternal(t)
             /\ run.weight[t] > 0
             /\ \A i \in 1..Len(tree[t].Children) : tree[t].Children[i] \in Emitted(run.out))
            => IntSum([i \in 1..Len(tree[t].Children) |->
                          BandLength(run, t, BoundOf(run.out, tree[t].Children[i]))])
               = BandLength(run, t, BoundOf(run.out, t))

\* C4 Depth limiting, as claimed: with maxDepth = D > 0 no rectangle is drawn
\* for a node at depth >= D.
DepthLimiting ==
    maxDepth > 0 =>
        \A run \in Runs : \A t \in Emitted(run.out) : DepthOf(t) < maxDepth

\* C4 amended: with maxDepth = D > 0 no rectangle is drawn for a node at
\* depth > D.
DepthLimitingAmended ==
    maxDepth > 0 =>
        \A run \in Runs : \A t \in Emitted(run.out) : DepthOf(t) <= maxDepth

\* C4 witness: both runs ended on a tree that reaches below the limit, and
\* nodes at the limit were drawn.
DepthLimitingWitness ==
    /\ maxDepth > 0
    /\ LibDone
    /\ StdDone
    /\ \E t \in Nodes : DepthOf(t) > maxDepth
    /\ \E t \in Emitted(svgOut) \cap Emitted(tOut) : DepthOf(t) = maxDepth

\* C5 Weight aggregation: the weight drawTree computes for a node with
\* children, TNode.Weight in the library and TNode.size in the standalone
\* program, is the sum of the sizes of the leaves below it, whatever "size"
\* the node itself carries.  (Stated for the documents whose leaves have no
\* "children" key.)
WeightAggregation ==
    (\A t \in Nodes : IsInternal(t) \/ tree[t].isNil) =>
        /\ \A k \in 1..Len(stack) :
              stack[k].parentWeight = Num(LeafSizes(stack[k].t), 1)
        /\ \A k \in 1..Len(tstack) :
              tstack[k].mSize = Num(LeafSizes(tstack[k].t), 1)

\* C7 Zero-weight parent: a child of a parent of weight 0 gets proportion 0
\* and a band of length zero at the start edge of the parent.
ZeroWeightParent ==
    /\ \A k \in 1..Len(stack) :
          (stack[k].parentWeight = Num(0, 1) /\ stack[k].i > 1)
              => stack[k].proportion = Num(0, 1)
    /\ \A k \in 1..Len(tstack) :
          (tstack[k].mSize = Num(0, 1) /\ tstack[k].i > 1)
              => tstack[k].proportion = Num(0, 1)
    /\ \A run \in Runs :
          \A t \in Emitted(run.out) :
              run.weight[ParentOf(t)] = 0 =>
                  LET p == BoundOf(run.out, ParentOf(t))
                      r == BoundOf(run.out, t)
                  IN  IF SliceOf(run, ParentOf(t)) = Horizontal
                      THEN r.Min.Y = p.Min.Y /\ r.Max.Y = p.Min.Y
                      ELSE r.Min.X = p.Min.X /\ r.Max.X = p.Min.X

\* C9 Drawn down to the limit: when a run with maxDepth = D > 0 has ended, the
\* nodes drawn are exactly the nodes at depth 1..D.
DrawnToDepth ==
    maxDepth > 0 =>
        /\ LibDone => Emitted(svgOut) = {t \in Nodes : 1 <= DepthOf(t) /\ DepthOf(t) <= maxDepth}
        /\ StdDone => Emitted(tOut) = {t \in Nodes : 1 <= DepthOf(t) /\ DepthOf(t) <= maxDepth}

\* C9 witness: both runs ended with a limit of 2 on a tree of depth 3, with
\* the nodes of depth 2 drawn.
DrawnToDepthWitness ==
    /\ maxDepth = 2
    /\ phase = "main2"
    /\ tstack = <<>>
    /\ \E t \in Nodes : DepthOf(t) = 3
    /\ \E t \in Nodes : DepthOf(t) = 2 /\ t \in Emitted(svgOut) /\ t \in Emitted(tOut)

\* C6 Orientation alternation: a call that slices its node Horizontal or
\* Vertical passes the other orientation to its children, so the calls in
\* progress alternate from the outermost to the innermost.
OrientationAlternation ==
    /\ \A k \in 1..Len(stack) :
          stack[k].path \in {Horizontal, Vertical} =>
              /\ stack[k].nextPath = Flip(stack[k].path)
              /\ k < Len(stack) => stack[k + 1].path = Flip(stack[k].path)
    /\ \A k \in 1..Len(tstack) :
          LET t == tstack[k].t
              o == fields[t].orientation
          IN  o \in {HORIZONTAL, VERTICAL} =>
                  /\ tstack[k].nextOrientation = Flip(o)
                  /\ \A j \in 1..(tstack[k].i - 1) :
                        fields[tree[t].Children[j]].orientation = Flip(o)
                  /\ k < Len(tstack) => fields[tstack[k + 1].t].orientation = Flip(o)

\* C6 witness: the library has drawn, and the standalone program is three
\* calls deep.
OrientationAlternationWitness ==
    /\ svgOut # <<>>
    /\ Len(tstack) = 3
    /\ fields[tstack[3].t].orientation = fields[Root].orientation

\* C6 witness of the library's half: three calls of drawTree in progress
OrientationAlternationDeep == Len(stack) = 3 /\ stack[3].path = startPath

\* C8 Repeatability: the second run draws what the first run drew, call for
\* call, in the library and in the standalone program, whose second run
\* starts from the fields the first run stored.
Repeatable ==
    /\ phase = "draw2" =>
          /\ Len(svgOut) <= Len(svgPrev)
          /\ svgOut = SubSeq(svgPrev, 1, Len(svgOut))
    /\ (phase = "draw2" /\ stack = <<>>) \/ phase \in {"main1", "main2"} =>
          svgOut = svgPrev
    /\ phase = "main2" =>
          /\ Len(tOut) <= Len(tPrev)
          /\ tOut = SubSeq(tPrev, 1, Len(tOut))
    /\ (phase = "main2" /\ tstack = <<>>) => tOut = tPrev

\* C8 witness: the second run of the standalone program has ended after
\* drawing every node of a tree of depth 2 or more, on stored fields.
RepeatableWitness ==
    /\ phase = "main2"
    /\ tstack = <<>>
    /\ Len(tOut) = MaxNodes - 1
    /\ Len(svgOut) = MaxNodes - 1
    /\ \E t \in Nodes : fields[t].depth >= 2

IsPrefix(s, q) == Len(s) <= Len(q) /\ s = SubSeq(q, 1, Len(s))

\* C10 Single pass to the leaves: with maxDepth = 0 the nodes drawn so far are
\* always a prefix of the non-root nodes in depth-first pre-order, and the
\* runs end having drawn all of them.
SinglePass ==
    /\ [](IsPrefix(Ids(svgOut), PreOrder(Root)) /\ IsPrefix(Ids(tOut), PreOrder(Root)))
    /\ <>(/\ phase = "main2"
          /\ tstack = <<>>
          /\ Ids(svgOut) = PreOrder(Root)
          /\ Ids(tOut) = PreOrder(Root))

\* C10 witness: the runs have ended on a tree whose first child has a child
\* of its own and a later sibling.
SinglePassWitness ==
    /\ maxDepth = 0
    /\ Len(svgOut) = MaxNodes - 1
    /\ phase = "main2"
    /\ tstack = <<>>
    /\ Len(tree[Root].Children) >= 2
    /\ IsInternal(tree[Root].Children[1])
    /\ Ids(tOut) = PreOrder(Root)


\* round(x) = floor(x + 0.5), for x >= 0
Round(x) == ToInt(FloatAdd(x, Half), build)

\* c_i: the sum of the proportions of the first i children of t, a
\* proportion being weight(child) / weight(t) * band length of t
RECURSIVE Cumulative(_, _, _)
Cumulative(run, t, i) ==
    IF i = 0 THEN Num(0, 1)
    ELSE FloatAdd(Cumulative(run, t, i - 1),
                  FloatMul(FloatDiv(Num(run.weight[tree[t].Children[i]], 1),
                                    Num(run.weight[t], 1)),
                           ToFloat(BandLength(run, t, BoundOf(run.out, t)))))

\* C11 Cumulative rounding: under a parent of weight > 0, the length along
\* the banding axis of the rectangle drawn for the i-th child is
\* round(c_i) - round(c_(i-1)), c_i the sum of the proportions of the
\* children 1..i.
CumulativeRounding ==
    \A run \in Runs :
        \A t \in Nodes :
            (/\ IsInternal(t)
             /\ run.weight[t] > 0
             /\ t = Root \/ t \in Emitted(run.out))
            => \A i \in 1..Len(tree[t].Children) :
                   tree[t].Children[i] \in Emitted(run.out)
                   => BandLength(run, t, BoundOf(run.out, tree[t].Children[i]))
                      = IntSub(Round(Cumulative(run, t, i)),
                               Round(Cumulative(run, t, i - 1)))


\* the band length of a bound sliced with orientation o
BandOf(o, bound) == IF o = Horizontal THEN Dy(bound) ELSE Dx(bound)

\* the rectangle c keeps the bounds of n on the axis that o does not band
KeepsFrame(o, c, n) ==
    IF o = Horizontal
    THEN c.Min.X = n.Min.X /\ c.Max.X = n.Max.X
    ELSE c.Min.Y = n.Min.Y /\ c.Max.Y = n.Max.Y

\* C12 Axis mapping and frame: a child's rectangle keeps its parent's x0 and
\* x1 when the parent is sliced Horizontal and its y0 and y1 when sliced
\* Vertical, and the proportion of a child is its share of the weight times
\* the parent's Dy when sliced Horizontal, times its Dx when sliced Vertical.
AxisMapping ==
    /\ \A run \in Runs :
           \A t \in Emitted(run.out) :
               (ParentOf(t) = Root \/ ParentOf(t) \in Emitted(run.out))
               => KeepsFrame(SliceOf(run, ParentOf(t)),
                             BoundOf(run.out, t), BoundOf(run.out, ParentOf(t)))
    /\ \A k \in 1..Len(stack) :
           stack[k].i > 1
           => stack[k].proportion
              = FloatMul(FloatDiv(Num(Weight(Descendants(stack[k].t)[stack[k].i - 1]), 1),
                                  Num(Weight(stack[k].t), 1)),
                         ToFloat(BandOf(stack[k].path, stack[k].bound)))
    /\ \A k \in 1..Len(tstack) :
           tstack[k].i > 1
           => tstack[k].proportion
              = FloatMul(FloatDiv(Num(size(tree[tstack[k].t].Children[tstack[k].i - 1]), 1),
                                  Num(size(tstack[k].t), 1)),
                         ToFloat(BandOf(fields[tstack[k].t].orientation,
                                        fields[tstack[k].t].bound)))

\* both orientations have sliced a node on a canvas that is not square in
\* each implementation, and a parent is between two of its children
AxisMappingWitness ==
    /\ width # height
    /\ \E t \in Emitted(svgOut) : DepthOf(t) = 2
    /\ \E t \in Emitted(tOut) : DepthOf(t) = 2
    /\ \E k \in 1..Len(tstack) : tstack[k].i > 1 /\ size(tstack[k].t) > 0


\* C13 Leaf weight: for a drawn node without descendants, its children list
\* absent or present and empty, Weight (library adapter) and size
\* (standalone) return the size given in the data.
LeafWeight ==
    /\ \A t \in Emitted(svgOut) :
           Descendants(t) = <<>> => Weight(t) = tree[t].Size
    /\ \A t \in Emitted(tOut) :
           tree[t].Children = <<>> => size(t) = tree[t].Size


\* the (identity, rectangle) pairs of the drawNode calls of a run, in order
Pairs(out) == [k \in 1..Len(out) |-> <<out[k].identity, out[k].bound>>]

\* C14 Variant equivalence: on the same tree, canvas and maxDepth, and with
\* the library started with the orientation the standalone main gives its
\* root, the finished standalone run has drawn the same sequence of
\* (identity, rectangle) pairs as the finished library run.
VariantEquivalence ==
    (/\ StdDone
     /\ startPath = (IF width < height THEN HORIZONTAL ELSE VERTICAL))
    => Pairs(tOut) = Pairs(svgOut)

====
